---- MODULE Spec2Model ----
(***************************************************************************)
(* Deployment workflow state store (src/src/services/redis_store.py).     *)
(*                                                                         *)
(* RedisStateStore keeps one DeploymentState per site under the key        *)
(* "deployment:{site_id}".  Every mutation is a read-modify-write: a get   *)
(* of the JSON value, a change of the parsed aggregate, a set of the whole *)
(* aggregate.  Timestamps are abstracted to the single token Now.          *)
(*                                                                         *)
(*   Spec            one caller, each handler one atomic action            *)
(*   SpecCompletion  Spec with a record of the complete_step calls made    *)
(*   SpecConc        two workers whose gets and sets interleave            *)
(*   SpecDriver      one driver following the per-step protocol, with      *)
(*                   crashes and restarts                                  *)
(*   SpecDriverLive  SpecDriver with work that succeeds, under fairness    *)
(*   SpecAbsence     Spec on a store with or without a client              *)
(*   SpecSites       two workers, each on a site of its own                *)
(*   SpecSubnets     NetworkCalculator.calculate_site_subnets              *)
(*                   (src/src/services/network_calculator.py)              *)
(***************************************************************************)
EXTENDS Integers, FiniteSets, Sequences, TLC

\* ------------------------------------------------------------------ bounds

\* DeploymentState.total_steps, scaled down (the docstring of start_step
\* gives the step range as 1-13) so that a deployment can complete.
TotalSteps == 2

\* Step numbers the callers pass: 1..total_steps and one beyond it, since
\* no handler validates step_num.
MaxStepNum == TotalSteps + 1

StepNums == 1..MaxStepNum

\* How often the driver of a deployment may crash and restart.
MaxCrashes == 4

\* ------------------------------------------------------------------ inputs

Sites == {"s1", "s2"}

\* The sites create_deployment is called for; "s2" is never created, except
\* in SpecSites.
CreatedSites == {"s1"}

OrgIds == {"O1"}

SiteNames == {"Lab-1"}

StepNames == {"x"}

None == "None"

\* The opaque result payload of complete_step.
Results == {"r1"}

Errors == {"timeout"}

\* datetime.utcnow().isoformat()
Now == "t"

PENDING == "pending"

IN_PROGRESS == "in_progress"

COMPLETED == "completed"

FAILED == "failed"

VARIABLES
    store,   \* the key-value store: key -> JSON value
    last,    \* the latest call: handler, arguments, return value, what it found
    called,  \* per site, the steps 1..total_steps complete_step was called for
    workers, \* per concurrent worker: its call and the value its get returned
    driver   \* the driver of one deployment: position, step, crashes, history

vars == <<store, last, called, workers, driver>>

\* ------------------------------------------------------------------ models

\* StepState(step_num=..., name=..., **given): the fields not given take
\* the model's defaults.
StepState(step_num, name, status, started_at, error) ==
    [step_num |-> step_num, name |-> name, status |-> status,
     started_at |-> started_at, completed_at |-> None,
     result |-> None, error |-> error]

\* The empty steps mapping.
NoSteps == [n \in {} |-> None]

\* DeploymentState(site_id, org_id, site_name, status) with default fields.
DeploymentState(site_id, org_id, site_name, status) ==
    [site_id |-> site_id, org_id |-> org_id, site_name |-> site_name,
     status |-> status, steps |-> NoSteps, current_step |-> None,
     total_steps |-> TotalSteps, created_at |-> Now, updated_at |-> Now]

\* str(n) of a step number, as JSON object keys are strings.
IntToStr(n) ==
    LET d == <<"0", "1", "2", "3", "4", "5", "6", "7", "8", "9">>
    IN  IF n < 10 THEN d[n + 1] ELSE d[(n \div 10) + 1] \o d[(n % 10) + 1]

\* int(s) of a JSON object key (the keys are dumped step numbers).
StrToInt(s) == CHOOSE n \in StepNums : IntToStr(n) = s

\* state.model_dump_json(): the steps mapping is dumped with string keys.
model_dump_json(state) ==
    [state EXCEPT !.steps =
        [k \in {IntToStr(n) : n \in DOMAIN state.steps} |-> state.steps[StrToInt(k)]]]

\* DeploymentState.model_validate_json(data): keys are parsed back to int.
model_validate_json(data) ==
    [data EXCEPT !.steps =
        [n \in {StrToInt(k) : k \in DOMAIN data.steps} |-> data.steps[IntToStr(n)]]]

\* ------------------------------------------------------------------ store

\* Mutant of _key: the key does not depend on the site.
_key_Shared(site_id) == <<"deployment", "s1">>

\* f"deployment:{site_id}"
_key(site_id) == <<"deployment", site_id>>

\* client.set(key, value)
ClientSet(db, key, value) ==
    [k \in DOMAIN db \cup {key} |-> IF k = key THEN value ELSE db[k]]

\* The content of a store constructed with client = None: it holds no
\* deployment key, and nothing is ever written to it.
NoClient == [k \in {<<"client", None>>} |-> None]

\* if self.client
HasClient(db) == db # NoClient

\* Mutant of SetIfClient: the guard on self.client is missing.
SetIfClient_NoGuard(db, key, value) == ClientSet(db, key, value)

\* if self.client: self.client.set(key, value)
SetIfClient(db, key, value) ==
    IF HasClient(db) THEN ClientSet(db, key, value) ELSE db

\* get_deployment on a store content db: None when there is no client or
\* the key is absent.
get_deployment(db, site_id) ==
    IF HasClient(db) /\ _key(site_id) \in DOMAIN db
    THEN model_validate_json(db[_key(site_id)])
    ELSE None

Exists(db, site_id) == _key(site_id) \in DOMAIN db

\* Mutant of is_step_completed: a step counts as completed as soon as it is
\* in the steps map.
is_step_completed_Present(db, site_id, step_num) ==
    IF ~Exists(db, site_id) THEN FALSE
    ELSE step_num \in DOMAIN get_deployment(db, site_id).steps

\* Mutant of is_step_completed: the status is compared with the wrong member
\* of StepStatus.
is_step_completed_InProgress(db, site_id, step_num) ==
    LET state == get_deployment(db, site_id)
    IN  IF ~Exists(db, site_id) THEN FALSE
        ELSE IF step_num \in DOMAIN state.steps
             THEN state.steps[step_num].status = IN_PROGRESS
             ELSE FALSE

\* is_step_completed on a store content db.
is_step_completed(db, site_id, step_num) ==
    LET state == get_deployment(db, site_id)
    IN  IF ~Exists(db, site_id) THEN FALSE
        ELSE IF step_num \in DOMAIN state.steps
             THEN state.steps[step_num].status = COMPLETED
             ELSE FALSE

\* Mutant of PutStep: the assignment replaces the whole mapping.
PutStep_Only(steps, step_num, step) == [n \in {step_num} |-> step]

\* dict assignment state.steps[step_num] = step
PutStep(steps, step_num, step) ==
    [n \in DOMAIN steps \cup {step_num} |-> IF n = step_num THEN step ELSE steps[n]]

\* Mutant of completed_count: len(state.steps), whatever the statuses.
completed_count_All(steps) == Cardinality(DOMAIN steps)

\* sum(1 for s in state.steps.values() if s.status == COMPLETED)
completed_count(steps) ==
    Cardinality({n \in DOMAIN steps : steps[n].status = COMPLETED})

\* Mutant of StartStepState: line 103 (state.status = IN_PROGRESS) is missing.
StartStepState_KeepStatus(state, step_num, step_name) ==
    [state EXCEPT
        !.steps = PutStep(state.steps, step_num,
                          StepState(step_num, step_name, IN_PROGRESS, Now, None)),
        !.current_step = step_num,
        !.updated_at = Now]

\* Mutant of StartStepState: a step already in the map is left as it is.
StartStepState_IfAbsent(state, step_num, step_name) ==
    [state EXCEPT
        !.steps = IF step_num \in DOMAIN state.steps THEN @
                  ELSE PutStep(state.steps, step_num,
                               StepState(step_num, step_name, IN_PROGRESS, Now, None)),
        !.current_step = step_num,
        !.status = IN_PROGRESS,
        !.updated_at = Now]

\* start_step, lines 94-104: the aggregate after the mutation.
StartStepState(state, step_num, step_name) ==
    [state EXCEPT
        !.steps = PutStep(state.steps, step_num,
                          StepState(step_num, step_name, IN_PROGRESS, Now, None)),
        !.current_step = step_num,
        !.status = IN_PROGRESS,
        !.updated_at = Now]

\* Mutant of CompleteStepState: every step of the map is marked COMPLETED.
CompleteStepState_AllSteps(state, step_num, result) ==
    LET steps == [n \in DOMAIN state.steps |->
                     [state.steps[n] EXCEPT
                         !.status = COMPLETED, !.completed_at = Now, !.result = result]]
    IN  [state EXCEPT
            !.steps = steps,
            !.updated_at = Now,
            !.status = IF completed_count(steps) >= state.total_steps
                       THEN COMPLETED ELSE @]

\* Mutant of CompleteStepState: the test of line 137 is > instead of >=.
CompleteStepState_Gt(state, step_num, result) ==
    LET step  == [state.steps[step_num] EXCEPT
                     !.status = COMPLETED, !.completed_at = Now, !.result = result]
        steps == PutStep(state.steps, step_num, step)
    IN  [state EXCEPT
            !.steps = steps,
            !.updated_at = Now,
            !.status = IF completed_count(steps) > state.total_steps
                       THEN COMPLETED ELSE @]

\* Mutant of CompleteStepState: the aggregate is marked COMPLETED without
\* the test of line 137.
CompleteStepState_Always(state, step_num, result) ==
    LET step  == [state.steps[step_num] EXCEPT
                     !.status = COMPLETED, !.completed_at = Now, !.result = result]
    IN  [state EXCEPT
            !.steps = PutStep(state.steps, step_num, step),
            !.updated_at = Now,
            !.status = COMPLETED]

\* Mutant of CompleteStepState: completing a step of a FAILED deployment
\* that is not yet complete puts the deployment back to IN_PROGRESS.
CompleteStepState_Unfail(state, step_num, result) ==
    LET step  == [state.steps[step_num] EXCEPT
                     !.status = COMPLETED, !.completed_at = Now, !.result = result]
        steps == PutStep(state.steps, step_num, step)
    IN  [state EXCEPT
            !.steps = steps,
            !.updated_at = Now,
            !.status = IF completed_count(steps) >= state.total_steps
                       THEN COMPLETED ELSE IN_PROGRESS]

\* complete_step, lines 127-138: the aggregate after the mutation.
CompleteStepState(state, step_num, result) ==
    LET step  == [state.steps[step_num] EXCEPT
                     !.status = COMPLETED, !.completed_at = Now, !.result = result]
        steps == PutStep(state.steps, step_num, step)
    IN  [state EXCEPT
            !.steps = steps,
            !.updated_at = Now,
            !.status = IF completed_count(steps) >= state.total_steps
                       THEN COMPLETED ELSE @]

\* Mutant of FailStepState: line 167 (state.status = FAILED) is missing.
FailStepState_KeepStatus(state, step_num, error) ==
    LET step == [state.steps[step_num] EXCEPT
                    !.status = FAILED, !.error = error, !.completed_at = Now]
    IN  [state EXCEPT
            !.steps = PutStep(state.steps, step_num, step),
            !.updated_at = Now]

\* Mutant of FailStepState: the failed step becomes the current step.
FailStepState_Current(state, step_num, error) ==
    LET step == [state.steps[step_num] EXCEPT
                    !.status = FAILED, !.error = error, !.completed_at = Now]
    IN  [state EXCEPT
            !.steps = PutStep(state.steps, step_num, step),
            !.current_step = step_num,
            !.status = FAILED,
            !.updated_at = Now]

\* fail_step, lines 161-168: the aggregate after the mutation.
FailStepState(state, step_num, error) ==
    LET step == [state.steps[step_num] EXCEPT
                    !.status = FAILED, !.error = error, !.completed_at = Now]
    IN  [state EXCEPT
            !.steps = PutStep(state.steps, step_num, step),
            !.status = FAILED,
            !.updated_at = Now]

\* ------------------------------------------------------------------ handlers
\* Each handler is a function of the store content db and its arguments,
\* giving the store content after the call and the value returned.

\* Mutant of create_deployment: an existing record is kept (set-if-absent).
create_deployment_IfAbsent(db, site_id, org_id, site_name) ==
    LET state == DeploymentState(site_id, org_id, site_name, IN_PROGRESS)
    IN  IF Exists(db, site_id)
        THEN [db |-> db, ret |-> get_deployment(db, site_id)]
        ELSE [db |-> SetIfClient(db, _key(site_id), model_dump_json(state)),
              ret |-> state]

create_deployment(db, site_id, org_id, site_name) ==
    LET state == DeploymentState(site_id, org_id, site_name, IN_PROGRESS)
    IN  [db |-> SetIfClient(db, _key(site_id), model_dump_json(state)), ret |-> state]

start_step(db, site_id, step_num, step_name) ==
    LET state == get_deployment(db, site_id)
    IN  IF ~Exists(db, site_id)
        THEN [db |-> db, ret |-> StepState(step_num, step_name, PENDING, None, None)]
        ELSE LET new == StartStepState(state, step_num, step_name)
             IN  [db |-> SetIfClient(db, _key(site_id), model_dump_json(new)),
                  ret |-> new.steps[step_num]]

complete_step(db, site_id, step_num, result) ==
    LET state == get_deployment(db, site_id)
    IN  IF ~Exists(db, site_id) \/ step_num \notin DOMAIN state.steps
        THEN [db |-> db, ret |-> StepState(step_num, "unknown", COMPLETED, None, None)]
        ELSE LET new == CompleteStepState(state, step_num, result)
             IN  [db |-> SetIfClient(db, _key(site_id), model_dump_json(new)),
                  ret |-> new.steps[step_num]]

\* Mutant of fail_step: a step number not in the steps map of an existing
\* deployment is inserted and failed instead of being answered synthetically.
fail_step_Upsert(db, site_id, step_num, error) ==
    LET state == get_deployment(db, site_id)
    IN  IF ~Exists(db, site_id)
        THEN [db |-> db, ret |-> StepState(step_num, "unknown", FAILED, None, error)]
        ELSE LET base == IF step_num \in DOMAIN state.steps THEN state
                         ELSE [state EXCEPT !.steps =
                                  PutStep(@, step_num,
                                          StepState(step_num, "unknown", PENDING, None, None))]
                 new  == FailStepState(base, step_num, error)
             IN  [db |-> SetIfClient(db, _key(site_id), model_dump_json(new)),
                  ret |-> new.steps[step_num]]

fail_step(db, site_id, step_num, error) ==
    LET state == get_deployment(db, site_id)
    IN  IF ~Exists(db, site_id) \/ step_num \notin DOMAIN state.steps
        THEN [db |-> db, ret |-> StepState(step_num, "unknown", FAILED, None, error)]
        ELSE LET new == FailStepState(state, step_num, error)
             IN  [db |-> SetIfClient(db, _key(site_id), model_dump_json(new)),
                  ret |-> new.steps[step_num]]

\* ------------------------------------------------------------------ calls

\* What a call found before it acted: the step's status (PENDING when the
\* step is not in the mapping, "no_record" when the site has no record),
\* the aggregate's status and the answer of is_step_completed.
PriorStep(db, site_id, step_num) ==
    IF ~Exists(db, site_id) THEN "no_record"
    ELSE LET state == get_deployment(db, site_id)
         IN  IF step_num \in DOMAIN state.steps
             THEN state.steps[step_num].status ELSE PENDING

PriorStatus(db, site_id) ==
    IF Exists(db, site_id) THEN get_deployment(db, site_id).status ELSE None

Call(op, db, site_id, step_num, ret) ==
    [op |-> op, site |-> site_id, step_num |-> step_num, ret |-> ret,
     prior |-> PriorStep(db, site_id, step_num),
     prior_status |-> PriorStatus(db, site_id),
     was_completed |-> is_step_completed(db, site_id, step_num)]

NoCall ==
    [op |-> "init", site |-> None, step_num |-> 0, ret |-> None,
     prior |-> "no_record", prior_status |-> None, was_completed |-> FALSE]

StepOps == {"start_step", "complete_step", "fail_step"}

EmptyStore == [k \in {} |-> None]

\* ------------------------------------------------------------------ Spec
\* One caller; every handler runs from its get to its set without another
\* call in between.

NoneCalled == [s \in Sites |-> {}]

Workers == {"w1", "w2"}

\* What client.get returns for an absent key.
Nil == [nil |-> TRUE]

IdleWorker ==
    [pc |-> "idle", op |-> None, site |-> None, step_num |-> 0, arg |-> None,
     data |-> Nil]

NoDriver == [pc |-> "off", step |-> 0, crashes |-> 0, persisted |-> {}]

Init ==
    /\ store = EmptyStore
    /\ last = NoCall
    /\ called = NoneCalled
    /\ workers = [w \in Workers |-> IdleWorker]
    /\ driver = NoDriver

CreateDeployment ==
    \E s \in CreatedSites, o \in OrgIds, nm \in SiteNames :
        LET r == create_deployment(store, s, o, nm)
        IN  /\ store' = r.db
            /\ last' = Call("create_deployment", store, s, 0, r.ret)
            /\ UNCHANGED <<called, workers, driver>>

\* The step numbers drawn for a site.  On a site that is never created every
\* handler takes its early return whatever the step number, so one is drawn.
StepNumsFor(s) == IF s \in CreatedSites THEN StepNums ELSE {1}

StartStep ==
    \E s \in Sites : \E n \in StepNumsFor(s), nm \in StepNames :
        LET r == start_step(store, s, n, nm)
        IN  /\ store' = r.db
            /\ last' = Call("start_step", store, s, n, r.ret)
            /\ UNCHANGED <<called, workers, driver>>

CompleteStep ==
    \E s \in Sites : \E n \in StepNumsFor(s), res \in Results :
        LET r == complete_step(store, s, n, res)
        IN  /\ store' = r.db
            /\ last' = Call("complete_step", store, s, n, r.ret)
            /\ UNCHANGED <<called, workers, driver>>

FailStep ==
    \E s \in Sites : \E n \in StepNumsFor(s), e \in Errors :
        LET r == fail_step(store, s, n, e)
        IN  /\ store' = r.db
            /\ last' = Call("fail_step", store, s, n, r.ret)
            /\ UNCHANGED <<called, workers, driver>>

Next ==
    \/ CreateDeployment
    \/ StartStep
    \/ CompleteStep
    \/ FailStep

Spec == Init /\ [][Next]_vars

\* ------------------------------------------------------------------ SpecCompletion
\* The same caller, with a record of the complete_step calls made on each
\* deployment since it was created.

CompletionCreate ==
    \E s \in CreatedSites, o \in OrgIds, nm \in SiteNames :
        LET r == create_deployment(store, s, o, nm)
        IN  /\ store' = r.db
            /\ last' = Call("create_deployment", store, s, 0, r.ret)
            /\ called' = [called EXCEPT ![s] = {}]
            /\ UNCHANGED <<workers, driver>>

CompletionStart ==
    \E s \in CreatedSites, n \in StepNums, nm \in StepNames :
        LET r == start_step(store, s, n, nm)
        IN  /\ store' = r.db
            /\ last' = Call("start_step", store, s, n, r.ret)
            /\ UNCHANGED <<called, workers, driver>>

CompletionComplete ==
    \E s \in CreatedSites, n \in StepNums, res \in Results :
        LET r == complete_step(store, s, n, res)
        IN  /\ store' = r.db
            /\ last' = Call("complete_step", store, s, n, r.ret)
            /\ called' = IF Exists(store, s)
                         THEN [called EXCEPT ![s] = @ \cup ({n} \cap 1..TotalSteps)]
                         ELSE called
            /\ UNCHANGED <<workers, driver>>

CompletionFail ==
    \E s \in CreatedSites, n \in StepNums, e \in Errors :
        LET r == fail_step(store, s, n, e)
        IN  /\ store' = r.db
            /\ last' = Call("fail_step", store, s, n, r.ret)
            /\ UNCHANGED <<called, workers, driver>>

NextCompletion ==
    \/ CompletionCreate
    \/ CompletionStart
    \/ CompletionComplete
    \/ CompletionFail

SpecCompletion == Init /\ [][NextCompletion]_vars

\* ------------------------------------------------------------------ SpecConc
\* Two workers, each making one step-transition call on a deployment that
\* sequential calls have set up.  A worker's call is two store round trips,
\* the get of get_deployment and the set of the changed aggregate, and the
\* other worker's round trips may come between them.

Racing == \E w \in Workers : workers[w].pc # "idle"

SetupCreate ==
    /\ ~Racing
    /\ \E s \in CreatedSites, o \in OrgIds, nm \in SiteNames :
          store' = create_deployment(store, s, o, nm).db
    /\ UNCHANGED <<last, called, workers, driver>>

SetupStart ==
    /\ ~Racing
    /\ \E s \in CreatedSites, n \in StepNums, nm \in StepNames :
          store' = start_step(store, s, n, nm).db
    /\ UNCHANGED <<last, called, workers, driver>>

SetupComplete ==
    /\ ~Racing
    /\ \E s \in CreatedSites, n \in StepNums, res \in Results :
          store' = complete_step(store, s, n, res).db
    /\ UNCHANGED <<last, called, workers, driver>>

SetupFail ==
    /\ ~Racing
    /\ \E s \in CreatedSites, n \in StepNums, e \in Errors :
          store' = fail_step(store, s, n, e).db
    /\ UNCHANGED <<last, called, workers, driver>>

\* client.get(key): the stored value, Nil when the key is absent.
ClientGet(db, key) == IF key \in DOMAIN db THEN db[key] ELSE Nil

\* The store content a worker saw: the value its get returned, under its key.
Seen(w) ==
    IF workers[w].data = Nil THEN EmptyStore
    ELSE ClientSet(EmptyStore, _key(workers[w].site), workers[w].data)

\* A handler applied to a store content, by name.
Handle(op, db, site_id, step_num, arg) ==
    CASE op = "start_step" -> start_step(db, site_id, step_num, arg)
      [] op = "complete_step" -> complete_step(db, site_id, step_num, arg)
      [] op = "fail_step" -> fail_step(db, site_id, step_num, arg)

Args(op) ==
    CASE op = "start_step" -> StepNames
      [] op = "complete_step" -> Results
      [] op = "fail_step" -> Errors

\* The get of a call (line 90, 123 or 157).  The call returns at once, with
\* no set, when the handler takes its early return.
WorkerGet(w) ==
    /\ workers[w].pc = "idle"
    /\ \E op \in StepOps, s \in CreatedSites, n \in StepNums :
        \E a \in Args(op) :
          LET data == ClientGet(store, _key(s))
              seen == IF data = Nil THEN EmptyStore
                      ELSE ClientSet(EmptyStore, _key(s), data)
              returns == Handle(op, seen, s, n, a).db = seen
                            /\ (data = Nil \/ (op # "start_step"
                                  /\ n \notin DOMAIN get_deployment(seen, s).steps))
          IN  workers' = [workers EXCEPT ![w] =
                  [pc |-> IF returns THEN "done" ELSE "loaded",
                   op |-> op, site |-> s, step_num |-> n, arg |-> a, data |-> data]]
    /\ UNCHANGED <<store, last, called, driver>>

\* The set of a call (line 107, 141 or 171): the aggregate the worker read,
\* changed by the handler, replaces whatever the key holds now.
WorkerSet(w) ==
    /\ workers[w].pc = "loaded"
    /\ LET c == workers[w]
           r == Handle(c.op, Seen(w), c.site, c.step_num, c.arg)
       IN  store' = ClientSet(store, _key(c.site), r.db[_key(c.site)])
    /\ workers' = [workers EXCEPT ![w].pc = "done"]
    /\ UNCHANGED <<last, called, driver>>

NextConc ==
    \/ SetupCreate
    \/ SetupStart
    \/ SetupComplete
    \/ SetupFail
    \/ \E w \in Workers : WorkerGet(w)
    \/ \E w \in Workers : WorkerSet(w)

SpecConc == Init /\ [][NextConc]_vars

\* ------------------------------------------------------------------ SpecDriver
\* One driver takes a created deployment through the steps 1..total_steps
\* by the per-step protocol: is_step_completed; if false start_step; the
\* step's work; complete_step on success, fail_step and stop on failure.
\* It may crash at any point and restart from step 1.  driver.persisted
\* records the steps whose complete_step write reached the store.

DriverSite == "s1"

InitDriver ==
    /\ store = create_deployment(EmptyStore, DriverSite, "O1", "Lab-1").db
    /\ last = NoCall
    /\ called = NoneCalled
    /\ workers = [w \in Workers |-> IdleWorker]
    /\ driver = [pc |-> "check", step |-> 1, crashes |-> 0, persisted |-> {}]

\* The driver moves on to the next step, or has finished the sequence.
NextStep(d) ==
    IF d.step = TotalSteps THEN [d EXCEPT !.pc = "finished"]
    ELSE [d EXCEPT !.pc = "check", !.step = @ + 1]

DriverCheck ==
    /\ driver.pc = "check"
    /\ driver' = IF is_step_completed(store, DriverSite, driver.step)
                 THEN NextStep(driver)
                 ELSE [driver EXCEPT !.pc = "start"]
    /\ UNCHANGED <<store, last, called, workers>>

DriverStart ==
    /\ driver.pc = "start"
    /\ \E nm \in StepNames : store' = start_step(store, DriverSite, driver.step, nm).db
    /\ driver' = [driver EXCEPT !.pc = "work"]
    /\ UNCHANGED <<last, called, workers>>

\* The step's side-effecting work against the remote API: it succeeds or fails.
DriverWork ==
    /\ driver.pc = "work"
    /\ \E ok \in BOOLEAN : driver' = [driver EXCEPT !.pc = IF ok THEN "complete" ELSE "fail"]
    /\ UNCHANGED <<store, last, called, workers>>

DriverComplete ==
    /\ driver.pc = "complete"
    /\ \E res \in Results :
          store' = complete_step(store, DriverSite, driver.step, res).db
    /\ driver' =
          LET wrote == /\ Exists(store, DriverSite)
                       /\ driver.step \in DOMAIN get_deployment(store, DriverSite).steps
          IN  NextStep([driver EXCEPT
                  !.persisted = IF wrote THEN @ \cup {driver.step} ELSE @])
    /\ UNCHANGED <<last, called, workers>>

DriverFail ==
    /\ driver.pc = "fail"
    /\ \E e \in Errors : store' = fail_step(store, DriverSite, driver.step, e).db
    /\ driver' = [driver EXCEPT !.pc = "stopped"]
    /\ UNCHANGED <<last, called, workers>>

DriverCrash ==
    /\ driver.crashes < MaxCrashes
    /\ driver' = [driver EXCEPT !.pc = "check", !.step = 1, !.crashes = @ + 1]
    /\ UNCHANGED <<store, last, called, workers>>

NextDriver ==
    \/ DriverCheck
    \/ DriverStart
    \/ DriverWork
    \/ DriverComplete
    \/ DriverFail
    \/ DriverCrash

SpecDriver == InitDriver /\ [][NextDriver]_vars

\* ------------------------------------------------------------------ SpecDriverLive
\* The driver on a deployment whose step work always succeeds.  The
\* deployment is fresh, or was left behind by an earlier run of the protocol
\* that completed the steps before step n and then stopped at step n: after
\* start_step (a crash during the work) or after fail_step (the work failed).
\* The driver keeps running (weak fairness of its own steps) and crashes at
\* most MaxCrashes times.

\* The store after the protocol has completed the steps 1..n of a fresh deployment.
RECURSIVE RunTo(_)
RunTo(n) ==
    IF n = 0 THEN create_deployment(EmptyStore, DriverSite, "O1", "Lab-1").db
    ELSE complete_step(start_step(RunTo(n - 1), DriverSite, n, "x").db,
                       DriverSite, n, "r1").db

\* The stores an earlier run leaves behind.
LeftBehind ==
    {RunTo(0)}
    \cup {start_step(RunTo(n - 1), DriverSite, n, "x").db : n \in 1..TotalSteps}
    \cup {fail_step(start_step(RunTo(n - 1), DriverSite, n, "x").db,
                    DriverSite, n, "timeout").db : n \in 1..TotalSteps}
    \cup {RunTo(n) : n \in 1..(TotalSteps - 1)}

InitDriverLive ==
    /\ store \in LeftBehind
    /\ last = NoCall
    /\ called = NoneCalled
    /\ workers = [w \in Workers |-> IdleWorker]
    /\ driver = [pc |-> "check", step |-> 1, crashes |-> 0, persisted |-> {}]

\* The step's work, which succeeds.
DriverWorkOk ==
    /\ driver.pc = "work"
    /\ driver' = [driver EXCEPT !.pc = "complete"]
    /\ UNCHANGED <<store, last, called, workers>>

NextDriverLive ==
    \/ DriverCheck
    \/ DriverStart
    \/ DriverWorkOk
    \/ DriverComplete
    \/ DriverCrash

SpecDriverLive ==
    /\ InitDriverLive
    /\ [][NextDriverLive]_vars
    /\ WF_vars(DriverCheck)
    /\ WF_vars(DriverStart)
    /\ WF_vars(DriverWorkOk)
    /\ WF_vars(DriverComplete)

\* ------------------------------------------------------------------ SpecAbsence
\* The calls of Spec on a store constructed either with a client holding no
\* key or with no client at all.

InitAbsence ==
    /\ store \in {EmptyStore, NoClient}
    /\ last = NoCall
    /\ called = NoneCalled
    /\ workers = [w \in Workers |-> IdleWorker]
    /\ driver = NoDriver

SpecAbsence == InitAbsence /\ [][Next]_vars

\* ------------------------------------------------------------------ SpecSubnets
\* NetworkCalculator.calculate_site_subnets, a pure function of its two
\* arguments, applied to arguments inside and just outside its accepted range.

\* The largest zone_id and site_id calculate_site_subnets accepts.
MaxId == 255

ZoneArgs == 0..(MaxId + 1)

SiteArgs == {0, 1, 2, MaxId, MaxId + 1}

\* raise ValueError(...)
ValueError == [raised |-> "ValueError"]

\* f"10.{second}.{third}.0/24": the four numbers between the dots and the
\* prefix length, as the format string writes them.
Subnet(second, third) == [octets |-> <<10, second, third, 0>>, prefix |-> 24]

IPAllocation(zone_id, site_id) ==
    [zone_id |-> zone_id,
     site_id |-> site_id,
     management_subnet |-> Subnet(zone_id, site_id),
     data_subnet |-> Subnet(100 + zone_id, site_id),
     voice_subnet |-> Subnet(150 + zone_id, site_id),
     guest_subnet |-> Subnet(200 + zone_id, site_id),
     iot_subnet |-> Subnet(220 + zone_id, site_id)]

calculate_site_subnets(zone_id, site_id) ==
    IF ~(1 <= zone_id /\ zone_id <= MaxId) THEN ValueError
    ELSE IF ~(1 <= site_id /\ site_id <= MaxId) THEN ValueError
    ELSE IPAllocation(zone_id, site_id)

InitSubnets ==
    /\ store = EmptyStore
    /\ last = [op |-> "init", zone_id |-> 0, site_id |-> 0, ret |-> ValueError]
    /\ called = NoneCalled
    /\ workers = [w \in Workers |-> IdleWorker]
    /\ driver = NoDriver

CalculateSiteSubnets ==
    \E z \in ZoneArgs, s \in SiteArgs :
        /\ last' = [op |-> "calculate_site_subnets", zone_id |-> z, site_id |-> s,
                    ret |-> calculate_site_subnets(z, s)]
        /\ UNCHANGED <<store, called, workers, driver>>

NextSubnets == CalculateSiteSubnets

SpecSubnets == InitSubnets /\ [][NextSubnets]_vars

\* ------------------------------------------------------------------ SpecSites
\* Two workers, each making call after call on a site of its own.  A
\* step-transition call is two store round trips, as in SpecConc, and
\* create_deployment is one; the round trips of the two workers interleave.
\* A worker that is not inside a call remembers only which call it made last.

SiteOf == [w \in Workers |-> IF w = "w1" THEN "s1" ELSE "s2"]

\* The step numbers a worker passes: every step of the workflow on the
\* first site, the first step on the second.
SiteStepNums(w) == IF w = "w1" THEN 1..TotalSteps ELSE {1}

\* A worker that has returned from a call op.
Returned(w, op) ==
    [pc |-> "idle", op |-> op, site |-> SiteOf[w],
     step_num |-> 0, arg |-> None, data |-> Nil]

\* create_deployment: one set, no get (line 56).
SitesCreate(w) ==
    /\ workers[w].pc = "idle"
    /\ \E o \in OrgIds, nm \in SiteNames :
          /\ store' = create_deployment(store, SiteOf[w], o, nm).db
          /\ workers' = [workers EXCEPT ![w] = Returned(w, "create_deployment")]
    /\ UNCHANGED <<last, called, driver>>

\* The get of a step-transition call (line 90, 123 or 157); the call is over
\* at once when the handler takes its early return.
SitesGet(w) ==
    /\ workers[w].pc = "idle"
    /\ \E op \in StepOps, n \in SiteStepNums(w) :
        \E a \in Args(op) :
          LET s == SiteOf[w]
              data == ClientGet(store, _key(s))
              seen == IF data = Nil THEN EmptyStore
                      ELSE ClientSet(EmptyStore, _key(s), data)
              returns == data = Nil \/ (op # "start_step"
                                  /\ n \notin DOMAIN get_deployment(seen, s).steps)
          IN  workers' = [workers EXCEPT ![w] =
                  IF returns THEN Returned(w, op)
                  ELSE [pc |-> "loaded", op |-> op, site |-> s,
                        step_num |-> n, arg |-> a, data |-> data]]
    /\ UNCHANGED <<store, last, called, driver>>

\* The set of a step-transition call (line 107, 141 or 171).
SitesSet(w) ==
    /\ workers[w].pc = "loaded"
    /\ LET c == workers[w]
           r == Handle(c.op, Seen(w), c.site, c.step_num, c.arg)
       IN  store' = ClientSet(store, _key(c.site), r.db[_key(c.site)])
    /\ workers' = [workers EXCEPT ![w] = Returned(w, workers[w].op)]
    /\ UNCHANGED <<last, called, driver>>

NextSites ==
    \/ \E w \in Workers : SitesCreate(w)
    \/ \E w \in Workers : SitesGet(w)
    \/ \E w \in Workers : SitesSet(w)

SpecSites == Init /\ [][NextSites]_vars

\* ------------------------------------------------------------------ claims

Terminal == {COMPLETED, FAILED}

Present == {IN_PROGRESS, COMPLETED, FAILED}

\* The status a step-transition handler writes to the step it names.
Written(op) ==
    CASE op = "start_step" -> IN_PROGRESS
      [] op = "complete_step" -> COMPLETED
      [] op = "fail_step" -> FAILED

\* C2 as stated: once a persisted step is COMPLETED or FAILED, no
\* start_step, complete_step or fail_step call changes its status.
C2_StepTerminal ==
    [][last'.op \in StepOps =>
        \A s \in Sites : Exists(store, s) =>
            LET old == get_deployment(store, s).steps
                new == get_deployment(store', s).steps
            IN  \A n \in DOMAIN old :
                    old[n].status \in Terminal => new[n].status = old[n].status]_vars

\* C2 amended: a COMPLETED or FAILED step keeps its status under every
\* step-transition call that names another step number or another site;
\* a call that names the step itself sets the status that call writes
\* (start_step IN_PROGRESS, complete_step COMPLETED, fail_step FAILED).
C2_StepTerminalAmended ==
    [][last'.op \in StepOps =>
        \A s \in Sites : Exists(store, s) =>
            /\ Exists(store', s)
            /\ LET old == get_deployment(store, s).steps
                   new == get_deployment(store', s).steps
               IN  \A n \in DOMAIN old :
                       old[n].status \in Terminal =>
                           /\ n \in DOMAIN new
                           /\ new[n].status
                                = IF last'.site = s /\ last'.step_num = n
                                  THEN Written(last'.op)
                                  ELSE old[n].status]_vars

\* C2 witness: a call has acted on a step that was COMPLETED or FAILED while
\* another step of the same site stays COMPLETED or FAILED.
C2_Witness ==
    /\ last.op \in StepOps
    /\ last.prior \in Terminal
    /\ Exists(store, last.site)
    /\ get_deployment(store, last.site).steps[last.step_num].status = Written(last.op)
    /\ \E m \in DOMAIN get_deployment(store, last.site).steps :
          /\ m # last.step_num
          /\ get_deployment(store, last.site).steps[m].status \in Terminal

\* C3 as stated: once a deployment's status is COMPLETED or FAILED, no
\* start_step, complete_step or fail_step call changes it.
C3_AggregateTerminal ==
    [][last'.op \in StepOps =>
        \A s \in Sites : Exists(store, s) =>
            LET old == get_deployment(store, s)
            IN  old.status \in Terminal =>
                    get_deployment(store', s).status = old.status]_vars

\* The aggregate status after a step-transition call, as the handlers set it.
C3_StatusAfter(op, state, step_num) ==
    LET known == step_num \in DOMAIN state.steps
        others == {n \in DOMAIN state.steps :
                      n # step_num /\ state.steps[n].status = COMPLETED}
    IN  CASE op = "start_step" -> IN_PROGRESS
          [] op = "fail_step" -> IF known THEN FAILED ELSE state.status
          [] op = "complete_step" ->
                IF known /\ Cardinality(others) + 1 >= state.total_steps
                THEN COMPLETED ELSE state.status

\* C3 amended: a COMPLETED or FAILED deployment status is left unchanged by
\* calls on other sites and by complete_step/fail_step on a step number not
\* in the steps map; start_step on the site sets it to IN_PROGRESS, fail_step
\* on a step in the map sets it to FAILED, and complete_step on a step in the
\* map sets it to COMPLETED when the completed count reaches total_steps and
\* leaves it otherwise.
C3_AggregateTerminalAmended ==
    [][last'.op \in StepOps =>
        \A s \in Sites : Exists(store, s) =>
            LET old == get_deployment(store, s)
            IN  old.status \in Terminal =>
                    /\ Exists(store', s)
                    /\ get_deployment(store', s).status
                        = IF last'.site = s
                          THEN C3_StatusAfter(last'.op, old, last'.step_num)
                          ELSE old.status]_vars

\* C3 witness: a call on a COMPLETED or FAILED deployment has changed its status.
C3_Witness ==
    /\ last.op \in StepOps
    /\ last.prior_status \in Terminal
    /\ get_deployment(store, last.site).status # last.prior_status

\* C4 as stated: the status is COMPLETED iff the number of COMPLETED steps
\* equals total_steps.
C4_CompletedIffCount ==
    \A s \in Sites : Exists(store, s) =>
        LET state == get_deployment(store, s)
        IN  state.status = COMPLETED <=>
                completed_count(state.steps) = state.total_steps

\* C4 amended: a COMPLETED status implies at least total_steps COMPLETED
\* steps; and while every step number in the steps map lies in
\* 1..total_steps, the status is COMPLETED iff the number of COMPLETED steps
\* equals total_steps.
C4_CompletedIffCountAmended ==
    \A s \in Sites : Exists(store, s) =>
        LET state == get_deployment(store, s)
        IN  /\ state.status = COMPLETED =>
                completed_count(state.steps) >= state.total_steps
            /\ DOMAIN state.steps \subseteq 1..state.total_steps =>
                (state.status = COMPLETED <=>
                    completed_count(state.steps) = state.total_steps)

\* C4 witness: the last of the steps 1..total_steps has been completed.
C4_Witness ==
    /\ last.op = "complete_step"
    /\ last.prior = IN_PROGRESS
    /\ LET state == get_deployment(store, last.site)
       IN  /\ DOMAIN state.steps = 1..state.total_steps
           /\ state.status = COMPLETED
           /\ completed_count(state.steps) = state.total_steps

\* C5 as stated: after fail_step on an existing deployment, whatever the
\* step's prior status (PENDING, i.e. not in the steps map, included), the
\* deployment status is FAILED.
C5_FailureLaw ==
    (last.op = "fail_step" /\ last.prior # "no_record") =>
        get_deployment(store, last.site).status = FAILED

\* C5 amended: after fail_step on an existing deployment for a step in the
\* steps map (IN_PROGRESS, COMPLETED or FAILED) the deployment status is
\* FAILED; for a step number not in the steps map the status is unchanged.
C5_FailureLawAmended ==
    (last.op = "fail_step" /\ last.prior # "no_record") =>
        get_deployment(store, last.site).status
            = IF last.prior \in Present THEN FAILED ELSE last.prior_status

\* C5 witness: fail_step has acted on a COMPLETED step of a COMPLETED deployment.
C5_Witness ==
    /\ last.op = "fail_step"
    /\ last.prior = COMPLETED
    /\ last.prior_status = COMPLETED
    /\ get_deployment(store, last.site).status = FAILED

\* C6 as stated: for an existing deployment and a step that has not been
\* completed (never started included), is_step_completed is false before
\* complete_step and true immediately after it.
C6_GuardRoundTrip ==
    (last.op = "complete_step" /\ last.prior \notin {"no_record", COMPLETED}) =>
        /\ ~last.was_completed
        /\ is_step_completed(store, last.site, last.step_num)

\* C6 amended: for an existing deployment and a step in the steps map that
\* is not COMPLETED (IN_PROGRESS or FAILED), is_step_completed is false
\* before complete_step and true immediately after it.
C6_GuardRoundTripAmended ==
    (last.op = "complete_step" /\ last.prior \in {IN_PROGRESS, FAILED}) =>
        /\ ~last.was_completed
        /\ is_step_completed(store, last.site, last.step_num)

\* C6 witness: complete_step has acted on a FAILED step.
C6_Witness ==
    /\ last.op = "complete_step"
    /\ last.prior = FAILED
    /\ ~last.was_completed
    /\ is_step_completed(store, last.site, last.step_num)

\* C8 as stated: complete_step on a step that is already COMPLETED leaves
\* the deployment status as it was.
C8_RecompleteNoOp ==
    (last.op = "complete_step" /\ last.prior = COMPLETED) =>
        get_deployment(store, last.site).status = last.prior_status

\* C8 amended: while every step number in the steps map lies in
\* 1..total_steps, complete_step on a step that is already COMPLETED leaves
\* the deployment status as it was.
C8_RecompleteNoOpAmended ==
    (/\ last.op = "complete_step"
     /\ last.prior = COMPLETED
     /\ DOMAIN get_deployment(store, last.site).steps
            \subseteq 1..get_deployment(store, last.site).total_steps) =>
        get_deployment(store, last.site).status = last.prior_status

\* C8 witness: a COMPLETED step of a FAILED deployment, all of whose steps
\* are in 1..total_steps, has been completed again.
C8_Witness ==
    /\ last.op = "complete_step"
    /\ last.prior = COMPLETED
    /\ last.prior_status = FAILED
    /\ DOMAIN get_deployment(store, last.site).steps
            = 1..get_deployment(store, last.site).total_steps
    /\ get_deployment(store, last.site).status = FAILED

\* C9 as stated: for every persisted step, completed_at set implies status
\* COMPLETED or FAILED, result set implies COMPLETED, error set implies FAILED.
C9_StepFields ==
    \A s \in Sites : Exists(store, s) =>
        (\A n \in DOMAIN get_deployment(store, s).steps :
            LET step == get_deployment(store, s).steps[n]
            IN  /\ step.completed_at # None => step.status \in Terminal
                /\ step.result # None => step.status = COMPLETED
                /\ step.error # None => step.status = FAILED)

\* C7 as stated: once complete_step has been called for every step number
\* 1..total_steps of an existing deployment, its status is COMPLETED.
C7_CompletionLaw ==
    (/\ last.op = "complete_step"
     /\ Exists(store, last.site)
     /\ 1..get_deployment(store, last.site).total_steps \subseteq called[last.site]) =>
        get_deployment(store, last.site).status = COMPLETED

\* C7 amended: once complete_step has been called for every step number
\* 1..total_steps of an existing deployment and each of these steps is in
\* the steps map with status COMPLETED (the call found it there, and no
\* start_step or fail_step has acted on it since), the status is COMPLETED
\* immediately after a complete_step call that found its step in the map.
C7_CompletionLawAmended ==
    (/\ last.op = "complete_step"
     /\ last.prior \in Present
     /\ 1..get_deployment(store, last.site).total_steps \subseteq called[last.site]
     /\ \A n \in 1..get_deployment(store, last.site).total_steps :
           /\ n \in DOMAIN get_deployment(store, last.site).steps
           /\ get_deployment(store, last.site).steps[n].status = COMPLETED) =>
        get_deployment(store, last.site).status = COMPLETED

\* C7 witness: the last of the steps 1..total_steps of a FAILED deployment
\* has been completed, and the status is COMPLETED.
C7_Witness ==
    /\ last.op = "complete_step"
    /\ last.prior = FAILED
    /\ last.prior_status = FAILED
    /\ 1..get_deployment(store, last.site).total_steps \subseteq called[last.site]
    /\ get_deployment(store, last.site).status = COMPLETED

\* The two workers have each returned from a complete_step call on the same
\* site, for different step numbers, both in the steps map of the one
\* persisted state that both calls read.
C1_RaceOver ==
    /\ \A w \in Workers : workers[w].pc = "done" /\ workers[w].op = "complete_step"
    /\ workers["w1"].site = workers["w2"].site
    /\ workers["w1"].step_num # workers["w2"].step_num
    /\ workers["w1"].data = workers["w2"].data
    /\ workers["w1"].data # Nil
    /\ \A w \in Workers :
          workers[w].step_num \in DOMAIN get_deployment(Seen(w), workers[w].site).steps

\* C1 as stated: after two concurrent complete_step calls on one site for two
\* different steps of the steps map, started from the same persisted state,
\* the persisted aggregate shows both steps COMPLETED, in every interleaving
\* of the gets and sets.
C1_NoLostUpdate ==
    C1_RaceOver =>
        \A w \in Workers :
            get_deployment(store, workers[w].site).steps[workers[w].step_num].status
                = COMPLETED

\* C10: the driver has never just executed the work of a step (it is about
\* to report the outcome with complete_step or fail_step) whose complete_step
\* write was persisted before, whatever crashes and restarts came between.
C10_SafeReplay ==
    driver.pc \in {"complete", "fail"} => driver.step \notin driver.persisted

\* C10 witness: after a crash and restart the driver skipped a step whose
\* completion was persisted and has executed the work of a later step.
C10_Witness ==
    /\ driver.crashes > 0
    /\ driver.pc \in {"complete", "fail"}
    /\ driver.persisted # {}
    /\ \A n \in driver.persisted : n < driver.step
    /\ driver.step \notin driver.persisted

\* C11: a driver whose step work always succeeds, and that crashes at most
\* MaxCrashes times, restarting from step 1 each time, eventually brings the
\* persisted deployment status to COMPLETED.
C11_Resumable ==
    <>(get_deployment(store, DriverSite).status = COMPLETED)

\* C11 witness: after a crash and restart the driver has finished the
\* sequence and the deployment is COMPLETED.
C11_Witness ==
    /\ driver.crashes > 0
    /\ driver.pc = "finished"
    /\ driver.persisted # {}
    /\ get_deployment(store, DriverSite).status = COMPLETED

\* C12: on an existing deployment, in whatever state sequential calls have
\* left it, start_step(site, n, name) called twice in immediate succession
\* returns a step with status IN_PROGRESS both times; the persisted steps map
\* has the same key set after the second call as after the first, with
\* exactly one entry for n, whose status is IN_PROGRESS.
C12_StartTwice ==
    \A s \in Sites : Exists(store, s) =>
        \A n \in StepNums, nm \in StepNames :
            LET first  == start_step(store, s, n, nm)
                second == start_step(first.db, s, n, nm)
                steps1 == get_deployment(first.db, s).steps
                steps2 == get_deployment(second.db, s).steps
            IN  /\ first.ret.status = IN_PROGRESS
                /\ second.ret.status = IN_PROGRESS
                /\ DOMAIN steps2 = DOMAIN steps1
                /\ DOMAIN second.db[_key(s)].steps = DOMAIN first.db[_key(s)].steps
                /\ Cardinality({k \in DOMAIN second.db[_key(s)].steps :
                                    StrToInt(k) = n}) = 1
                /\ steps2[n].status = IN_PROGRESS

\* C12 witness: start_step has been called on a step that the call before
\* had left IN_PROGRESS in a map of several steps, and the call changed nothing.
C12_Witness ==
    /\ last.op = "start_step"
    /\ last.prior = IN_PROGRESS
    /\ last.ret.status = IN_PROGRESS
    /\ Cardinality(DOMAIN get_deployment(store, last.site).steps) > 1
    /\ start_step(store, last.site, last.step_num, "x").db = store

\* C13 as stated: in every persisted state the deployment status is FAILED
\* exactly when some step of the deployment has status FAILED.
C13_FailedIff ==
    \A s \in Sites : Exists(store, s) =>
        LET state == get_deployment(store, s)
        IN  (state.status = FAILED)
                <=> (\E n \in DOMAIN state.steps : state.steps[n].status = FAILED)

\* C13 amended: the deployment status becomes FAILED only by a fail_step on
\* a step in the steps map, which always makes it FAILED and leaves that step
\* FAILED; once FAILED it changes only by a create_deployment or start_step
\* on the site (to IN_PROGRESS) or by a complete_step that brings the count
\* of COMPLETED steps to total_steps (to COMPLETED).
C13_FailedIffAmended ==
    [][\A s \in Sites : (Exists(store, s) /\ Exists(store', s)) =>
          LET old == get_deployment(store, s)
              new == get_deployment(store', s)
              on  == last'.site = s
          IN  /\ (old.status # FAILED /\ new.status = FAILED) =>
                    /\ on /\ last'.op = "fail_step" /\ last'.prior \in Present
                    /\ new.steps[last'.step_num].status = FAILED
              /\ (on /\ last'.op = "fail_step" /\ last'.prior \in Present
                     /\ (store' # store \/ last' # last)) =>
                    new.status = FAILED
              /\ (old.status = FAILED /\ new.status # FAILED) =>
                    /\ on
                    /\ \/ last'.op \in {"create_deployment", "start_step"}
                             /\ new.status = IN_PROGRESS
                       \/ /\ last'.op = "complete_step"
                          /\ new.status = COMPLETED
                          /\ completed_count(new.steps) >= new.total_steps
    ]_vars

\* C13 witness: the status is FAILED and no step is FAILED, after
\* complete_step has acted on the FAILED step of a FAILED deployment.
C13_Witness ==
    /\ last.op = "complete_step"
    /\ last.prior = FAILED
    /\ last.prior_status = FAILED
    /\ get_deployment(store, last.site).status = FAILED
    /\ \A n \in DOMAIN get_deployment(store, last.site).steps :
           get_deployment(store, last.site).steps[n].status # FAILED

\* The status of the synthetic step a handler returns for an unknown target.
Synthetic(op) ==
    CASE op = "start_step" -> PENDING
      [] op = "complete_step" -> COMPLETED
      [] op = "fail_step" -> FAILED

\* C14: start_step, complete_step and fail_step on a site with no record,
\* and complete_step and fail_step on an existing deployment for a step
\* number not in its steps map, leave the store exactly unchanged and return
\* a step with status PENDING, COMPLETED and FAILED respectively.
C14_UnknownTarget ==
    [][(/\ last'.op \in StepOps
        /\ \/ last'.prior = "no_record"
           \/ last'.op # "start_step" /\ last'.prior = PENDING) =>
          /\ store' = store
          /\ last'.ret.status = Synthetic(last'.op)
          /\ last'.ret.step_num = last'.step_num
    ]_vars

\* C14 witness: fail_step has been called on an existing deployment with
\* recorded steps for a step number that is not among them, and answered FAILED.
C14_Witness ==
    /\ last.op = "fail_step"
    /\ last.prior = PENDING
    /\ last.ret.status = FAILED
    /\ get_deployment(store, last.site).steps # NoSteps
    /\ last.step_num \notin DOMAIN get_deployment(store, last.site).steps
    /\ get_deployment(store, last.site).status = last.prior_status

\* A site reads as absent: get_deployment returns None and is_step_completed
\* is false for every step number.
Absent(db, site_id) ==
    /\ ~Exists(db, site_id)
    /\ get_deployment(db, site_id) = None
    /\ \A n \in StepNums : ~is_step_completed(db, site_id, n)

\* C15: after any sequence of calls on any sites, a site on which
\* create_deployment was never called reads as absent, and so does every
\* site while the store has no client; a store constructed with no client
\* stays as constructed.
C15_AbsenceLaw ==
    /\ [](\A s \in Sites :
             (s \notin CreatedSites \/ ~HasClient(store)) => Absent(store, s))
    /\ [][~HasClient(store) => store' = store]_vars

\* C15, the store with no client: create_deployment has returned its aggregate for a site on a
\* store with no client, and the site still reads as absent.
C15_WitnessNoClient ==
    /\ ~HasClient(store)
    /\ last.op = "create_deployment"
    /\ last.ret.status = IN_PROGRESS
    /\ Absent(store, last.site)

\* C15 witness: calls have acted on the never-created site next
\* to a created one that holds steps.
C15_Witness ==
    /\ HasClient(store)
    /\ last.op = "complete_step"
    /\ last.site \notin CreatedSites
    /\ Absent(store, last.site)
    /\ \E s \in CreatedSites :
           Exists(store, s) /\ get_deployment(store, s).steps # NoSteps

\* C16: a start_step, complete_step or fail_step call on any site removes
\* no step number from the persisted steps map of any deployment, and
\* removes no deployment.
C16_StepsKept ==
    [][last'.op \in StepOps =>
          \A s \in Sites : Exists(store, s) =>
              /\ Exists(store', s)
              /\ DOMAIN store[_key(s)].steps \subseteq DOMAIN store'[_key(s)].steps
              /\ LET old == get_deployment(store, s)
                     new == get_deployment(store', s)
                 IN  DOMAIN old.steps \subseteq DOMAIN new.steps
    ]_vars

\* C16 witness: every step number is in the steps map, and the last call
\* was a fail_step on a step that was in the map before it.
C16_Witness ==
    /\ last.op = "fail_step"
    /\ last.prior \in Present
    /\ DOMAIN get_deployment(store, last.site).steps = StepNums

\* Arguments create_deployment is applied to in C17.
AnyOrgIds == {"O1", "O2"}

AnySiteNames == {"Lab-1", "Lab-2"}

SubnetFields ==
    {"management_subnet", "data_subnet", "voice_subnet", "guest_subnet", "iot_subnet"}

\* Two /24 subnets overlap exactly when their first three octets agree.
Overlap(a, b) == \A i \in 1..3 : a.octets[i] = b.octets[i]

\* Every number between the dots is an octet.
ValidSubnet(a) == \A i \in 1..4 : a.octets[i] \in 0..255

\* C18, validity: every second octet of an allocation is in 0..255.
C18_ValidOctets ==
    (last.op = "calculate_site_subnets" /\ last.ret # ValueError) =>
        \A f \in SubnetFields : ValidSubnet(last.ret[f])

\* C18, one allocation: its five subnets are pairwise non-overlapping.
C18_DisjointWithin ==
    (last.op = "calculate_site_subnets" /\ last.ret # ValueError) =>
        \A f, g \in SubnetFields :
            f # g => ~Overlap(last.ret[f], last.ret[g])

\* C18, two allocations: no subnet of one (zone_id, site_id) pair overlaps a
\* subnet of a different pair.
C18_DisjointAcross ==
    (last.op = "calculate_site_subnets" /\ last.ret # ValueError) =>
        \A z \in 1..MaxId, s \in SiteArgs \cap 1..MaxId :
            <<z, s>> # <<last.zone_id, last.site_id>> =>
                LET other == calculate_site_subnets(z, s)
                IN  \A f, g \in SubnetFields : ~Overlap(last.ret[f], other[g])

\* C18 as stated: for zone_id and site_id in 1..255 the five subnets are
\* valid, pairwise non-overlapping within the allocation, and overlap no
\* subnet of any other (zone_id, site_id) pair.
C18_SubnetDisjointness ==
    /\ C18_ValidOctets
    /\ C18_DisjointWithin
    /\ C18_DisjointAcross

\* The keys a step from db to db2 has created or whose value it changed.
ChangedKeys(db, db2) ==
    {k \in DOMAIN db \cup DOMAIN db2 :
        k \notin DOMAIN db \/ k \notin DOMAIN db2 \/ db[k] # db2[k]}

\* C19: under every interleaving of the store round trips of workers calling
\* create_deployment, start_step, complete_step and fail_step on different
\* sites, each round trip leaves the record, or the absence of a record, of
\* every site other than the caller's as it was.
C19_SiteIndependence ==
    [][/\ DOMAIN store \subseteq DOMAIN store'
       /\ ChangedKeys(store, store')
              \subseteq {<<"deployment", workers'[w].site>> :
                            w \in {v \in Workers : workers'[v] # workers[v]}}
       /\ \A w \in Workers : workers'[w] # workers[w] =>
              /\ workers'[w].site = SiteOf[w]
              /\ \A s \in Sites \ {SiteOf[w]} :
                     /\ Exists(store', s) <=> Exists(store, s)
                     /\ Exists(store, s) =>
                            get_deployment(store', s) = get_deployment(store, s)
    ]_vars

\* C19 witness: the second worker has read its site's record for a
\* fail_step and not yet written; since then the first worker has completed
\* the last step of its site, whose deployment is now COMPLETED.
C19_Witness ==
    /\ workers["w2"].pc = "loaded"
    /\ workers["w2"].op = "fail_step"
    /\ workers["w2"].data = ClientGet(store, _key("s2"))
    /\ get_deployment(store, "s2").steps # NoSteps
    /\ workers["w1"] = Returned("w1", "complete_step")
    /\ Exists(store, "s1")
    /\ get_deployment(store, "s1").status = COMPLETED
    /\ completed_count(get_deployment(store, "s1").steps) = TotalSteps

\* C20: after start_step(site, n, name) on an existing deployment
\* current_step is n; in every persisted state current_step is unset while
\* the steps map is empty and a key of the steps map otherwise; and
\* complete_step and fail_step change none of current_step, org_id,
\* site_name and total_steps.
C20_CurrentStep ==
    /\ []((last.op = "start_step" /\ last.prior # "no_record") =>
              get_deployment(store, last.site).current_step = last.step_num)
    /\ [](\A s \in Sites : Exists(store, s) =>
              LET d == get_deployment(store, s)
              IN  IF d.steps = NoSteps THEN d.current_step = None
                  ELSE d.current_step \in DOMAIN d.steps)
    /\ [][last'.op \in {"complete_step", "fail_step"} =>
             \A s \in Sites : Exists(store, s) =>
                 LET old == get_deployment(store, s)
                     new == get_deployment(store', s)
                 IN  /\ new.current_step = old.current_step
                     /\ new.org_id = old.org_id
                     /\ new.site_name = old.site_name
                     /\ new.total_steps = old.total_steps
       ]_vars

\* C20 witness: complete_step has acted on a step of the steps map that is
\* not the current step, and a later-started step is still the current one.
C20_Witness ==
    /\ last.op = "complete_step"
    /\ last.prior = IN_PROGRESS
    /\ get_deployment(store, last.site).steps[last.step_num].status = COMPLETED
    /\ get_deployment(store, last.site).current_step # last.step_num
    /\ get_deployment(store, last.site).current_step
           \in DOMAIN get_deployment(store, last.site).steps

====
